---- MODULE Spec2Model ----
(***************************************************************************)
(* CsvWriter (polars-io/src/csv/write.rs): the builder that holds a        *)
(* CsvWriterOptions bundle and an output stream, its with_ configuration   *)
(* methods, and finish, which writes the optional header and then the      *)
(* table body through write_impl.                                          *)
(*                                                                         *)
(* One writer is modelled.  The with_ methods take the writer by value and *)
(* return it, so a chain of calls is a sequence of updates of the one      *)
(* options bundle; finish borrows the writer mutably and leaves it usable. *)
(* Everything runs on the calling thread: no configuration call can        *)
(* interleave with a finish in progress.                                   *)
(***************************************************************************)
EXTENDS Integers, Sequences, FiniteSets

\* ----------------------------------------------------------------- bounds
\* Configuration calls made on the writer.
MaxCalls == 3
\* Calls of finish made on the writer.
MaxFinish == 1
\* Rows of the table handed to finish.
MaxRows == 2

\* ------------------------------------------------------- option values
\* Option<T>: None is the empty tuple, Some(v) the one-element tuple.
None == <<>>
Some(v) == <<v>>

\* b',' and b'"', the documented default delimiter and quote bytes.
Comma == 44
DoubleQuote == 34
\* The documented default batch size.
DefaultBatchSize == 1024

\* CsvWriterOptions::default(), as the type's documentation lists it.
DefaultOptions ==
    [ header          |-> TRUE,
      date_format     |-> None,
      time_format     |-> None,
      datetime_format |-> None,
      float_precision |-> None,
      delimiter       |-> Comma,
      quote           |-> DoubleQuote,
      null            |-> "",
      batch_size      |-> DefaultBatchSize ]

new_plain_default == DefaultOptions

\* The options CsvWriter::new gives the writer: the defaults, with the time
\* format set to all nine fractional digits.
new == [DefaultOptions EXCEPT !.time_format = Some("%T%.9f")]

\* ------------------------------------------------------------- inputs
\* Arguments the callers pass; u8 and usize arguments are unchecked, so a
\* delimiter may be the quote byte and a batch size may be 0.
ByteArgs == {Comma, DoubleQuote}
BatchSizeArgs == {0, 1, DefaultBatchSize}
NullArgs == {"", "NA"}
DateFormatArgs == {None, Some("%F"), Some("%d/%m/%Y")}
TimeFormatArgs == {None, Some("%T")}
DatetimeFormatArgs == {None, Some("%FT%T")}
FloatPrecisionArgs == {None, Some(2)}
OptionsArgs ==
    { DefaultOptions,
      [ header          |-> FALSE,
        date_format     |-> Some("%d/%m/%Y"),
        time_format     |-> Some("%T"),
        datetime_format |-> None,
        float_precision |-> Some(2),
        delimiter       |-> DoubleQuote,
        quote           |-> DoubleQuote,
        null            |-> "NA",
        batch_size      |-> 0 ] }

\* The options that are Option<_> and whose setters skip an absent value.
OptionalFields ==
    {"date_format", "time_format", "datetime_format", "float_precision"}
AllFields ==
    OptionalFields \cup {"header", "delimiter", "quote", "null", "batch_size"}

\* The one field each single-option method names.
FieldOf(op) ==
    CASE op = "has_header"           -> "header"
      [] op = "with_delimiter"       -> "delimiter"
      [] op = "with_batch_size"      -> "batch_size"
      [] op = "with_date_format"     -> "date_format"
      [] op = "with_time_format"     -> "time_format"
      [] op = "with_datetime_format" -> "datetime_format"
      [] op = "with_float_precision" -> "float_precision"
      [] op = "with_quoting_char"    -> "quote"
      [] op = "with_null_value"      -> "null"
SingleOps ==
    { "has_header", "with_delimiter", "with_batch_size", "with_date_format",
      "with_time_format", "with_datetime_format", "with_float_precision",
      "with_quoting_char", "with_null_value" }
OptionalOps ==
    { "with_date_format", "with_time_format", "with_datetime_format",
      "with_float_precision" }

\* -------------------------------------------------------------- state
VARIABLES
    options,   \* self.options
    writes,    \* the write calls made on self.buffer, in order
    pc,        \* where the calling thread is: "idle" or inside finish
    rows,      \* height of the table of the finish in progress
    pos,       \* rows of it already written
    start,     \* Len(writes) when the finish in progress was entered
    result,    \* what the finish in progress is about to return
    last,      \* history: the latest configuration call and its argument
    recent,    \* history: per optional field, the value last supplied
    nCalls,    \* history: configuration calls made
    nFinish    \* history: finish calls made

vars ==
    << options, writes, pc, rows, pos, start, result, last, recent,
       nCalls, nFinish >>

\* PolarsResult<()>: Ok(()), or the error of the write call numbered at.
Pending == [ok |-> TRUE, at |-> -1]
Ok == [ok |-> TRUE, at |-> 0]
Err(i) == [ok |-> FALSE, at |-> i]

Min(a, b) == IF a <= b THEN a ELSE b

\* The optional fields of an options bundle.
OptionalOf(o) == [f \in OptionalFields |-> o[f]]

Init ==
    /\ options = new
    /\ writes = <<>>
    /\ pc = "idle"
    /\ rows = 0
    /\ pos = 0
    /\ start = 0
    /\ result = Pending
    /\ last = [op |-> "new", arg |-> None]
    /\ recent = OptionalOf(new)
    /\ nCalls = 0
    /\ nFinish = 0

\* ---------------------------------------------------- configuration
\* What a call supplies for the optional fields: with_options supplies all
\* of them, an optional setter supplies its own when the value is present.
Supplied(op, arg) ==
    IF op = "with_options" THEN OptionalOf(arg)
    ELSE IF op \in OptionalOps /\ arg # None
         THEN [recent EXCEPT ![FieldOf(op)] = arg]
         ELSE recent

\* A configuration call: the writer is moved into the method and returned
\* with the options `o`; the stream is carried along untouched.
Configure(op, arg, o, w) ==
    /\ pc = "idle"
    /\ nCalls < MaxCalls
    /\ options' = o
    /\ writes' = w
    /\ last' = [op |-> op, arg |-> arg]
    /\ recent' = Supplied(op, arg)
    /\ nCalls' = nCalls + 1
    /\ UNCHANGED << pc, rows, pos, start, result, nFinish >>

with_options_keeps_time_format(o) ==
    Configure("with_options", o,
              [o EXCEPT !.time_format =
                  IF o.time_format = None THEN options.time_format
                  ELSE o.time_format],
              writes)

with_options(o) ==
    Configure("with_options", o, o, writes)

has_header(has) ==
    Configure("has_header", has, [options EXCEPT !.header = has], writes)

with_delimiter_and_quote(delimiter) ==
    Configure("with_delimiter", delimiter,
              [options EXCEPT !.delimiter = delimiter,
                              !.quote = DoubleQuote],
              writes)

with_delimiter(delimiter) ==
    Configure("with_delimiter", delimiter,
              [options EXCEPT !.delimiter = delimiter], writes)

with_batch_size(batch_size) ==
    Configure("with_batch_size", batch_size,
              [options EXCEPT !.batch_size = batch_size], writes)

with_date_format_always(format) ==
    Configure("with_date_format", format,
              [options EXCEPT !.date_format = format], writes)

with_date_format(format) ==
    Configure("with_date_format", format,
              IF format # None
              THEN [options EXCEPT !.date_format = format]
              ELSE options,
              writes)

with_time_format(format) ==
    Configure("with_time_format", format,
              IF format # None
              THEN [options EXCEPT !.time_format = format]
              ELSE options,
              writes)

with_datetime_format(format) ==
    Configure("with_datetime_format", format,
              IF format # None
              THEN [options EXCEPT !.datetime_format = format]
              ELSE options,
              writes)

with_float_precision(precision) ==
    Configure("with_float_precision", precision,
              IF precision # None
              THEN [options EXCEPT !.float_precision = precision]
              ELSE options,
              writes)

with_quoting_char(char) ==
    Configure("with_quoting_char", char,
              [options EXCEPT !.quote = char], writes)

with_null_value(null_value) ==
    Configure("with_null_value", null_value,
              [options EXCEPT !.null = null_value], writes)

\* ------------------------------------------------------------ finish
\* One call of write on the stream: the header row, or one window of n rows.
WriteCall(kind, n, ok) == [kind |-> kind, n |-> n, ok |-> ok]

\* write_impl::write_header: one write of the escaped column names.
write_header(ok) == Append(writes, WriteCall("header", 0, ok))

finish_ignores_header(n) ==
    /\ pc = "idle"
    /\ nFinish < MaxFinish
    /\ nFinish' = nFinish + 1
    /\ rows' = n
    /\ pos' = 0
    /\ start' = Len(writes)
    /\ result' = Pending
    /\ pc' = "header"
    /\ UNCHANGED << options, writes, last, recent, nCalls >>

\* finish, entered with a table of n rows: the test of self.options.header.
finish(n) ==
    /\ pc = "idle"
    /\ nFinish < MaxFinish
    /\ nFinish' = nFinish + 1
    /\ rows' = n
    /\ pos' = 0
    /\ start' = Len(writes)
    /\ result' = Pending
    /\ pc' = IF options.header THEN "header" ELSE "body"
    /\ UNCHANGED << options, writes, last, recent, nCalls >>

finish_header_swallows(ok) ==
    /\ pc = "header"
    /\ writes' = write_header(ok)
    /\ pc' = "body"
    /\ UNCHANGED << options, rows, pos, start, result, last, recent,
                    nCalls, nFinish >>

\* finish: write_header(..)?  An error leaves finish at once.
finish_header(ok) ==
    /\ pc = "header"
    /\ writes' = write_header(ok)
    /\ IF ok
       THEN /\ pc' = "body"
            /\ UNCHANGED result
       ELSE /\ pc' = "return"
            /\ result' = Err(Len(writes'))
    /\ UNCHANGED << options, rows, pos, start, last, recent,
                    nCalls, nFinish >>

\* write_impl::write: the next window of batch_size rows, one write each.
write_window(ok) ==
    /\ pc = "body"
    /\ pos < rows
    /\ options.batch_size >= 1
    /\ LET n == Min(options.batch_size, rows - pos) IN
       /\ writes' = Append(writes, WriteCall("body", n, ok))
       /\ IF ok
          THEN /\ pos' = pos + n
               /\ UNCHANGED << pc, result >>
          ELSE /\ pc' = "return"
               /\ result' = Err(Len(writes'))
               /\ UNCHANGED pos
    /\ UNCHANGED << options, rows, start, last, recent, nCalls, nFinish >>

\* write_impl::write: every row is written.
write_done ==
    /\ pc = "body"
    /\ pos >= rows
    /\ pc' = "return"
    /\ result' = Ok
    /\ UNCHANGED << options, writes, rows, pos, start, last, recent,
                    nCalls, nFinish >>

\* write_impl::write with windows of no rows: it never advances.
write_stall ==
    /\ pc = "body"
    /\ pos < rows
    /\ options.batch_size = 0
    /\ pc' = "stalled"
    /\ UNCHANGED << options, writes, rows, pos, start, result, last,
                    recent, nCalls, nFinish >>

\* finish hands its result to the caller; the writer is usable again.
finish_return ==
    /\ pc = "return"
    /\ pc' = "idle"
    /\ rows' = 0
    /\ pos' = 0
    /\ start' = 0
    /\ result' = Pending
    /\ UNCHANGED << options, writes, last, recent, nCalls, nFinish >>

\* ---------------------------------------------------------------- Next
Next ==
    \/ \E o \in OptionsArgs : with_options(o)
    \/ \E b \in BOOLEAN : has_header(b)
    \/ \E d \in ByteArgs : with_delimiter(d)
    \/ \E s \in BatchSizeArgs : with_batch_size(s)
    \/ \E f \in DateFormatArgs : with_date_format(f)
    \/ \E f \in TimeFormatArgs : with_time_format(f)
    \/ \E f \in DatetimeFormatArgs : with_datetime_format(f)
    \/ \E p \in FloatPrecisionArgs : with_float_precision(p)
    \/ \E c \in ByteArgs : with_quoting_char(c)
    \/ \E v \in NullArgs : with_null_value(v)
    \/ \E n \in 0..MaxRows : finish(n)
    \/ \E ok \in BOOLEAN : finish_header(ok)
    \/ \E ok \in BOOLEAN : write_window(ok)
    \/ write_done
    \/ write_stall
    \/ finish_return

Spec == Init /\ [][Next]_vars

\* ---------------------------------------------------------- properties
\* The finish in progress, and the write calls it has made so far.
InCall == pc \in {"header", "body", "return", "stalled"}
Seg == SubSeq(writes, start + 1, Len(writes))
HeaderWrites(s) == {i \in 1..Len(s) : s[i].kind = "header"}
FailedWrites(s) == {i \in 1..Len(s) : ~s[i].ok}

C2_SetterStep ==
    \A op \in OptionalOps :
        (nCalls' = nCalls + 1 /\ last'.op = op) =>
            options'[FieldOf(op)] =
                IF last'.arg = None THEN options[FieldOf(op)] ELSE last'.arg

\* Each Option<_> field holds the value last supplied for it.
C2_LastSupplied == \A f \in OptionalFields : options[f] = recent[f]

C3_WithOptionsReplaces == last.op = "with_options" => options = last.arg

C3_Witness ==
    /\ last.op = "with_options"
    /\ nCalls >= 2
    /\ last.arg.time_format = None
    /\ options.time_format = None

\* C4: in a call of finish with header set, the header write is the first
\* write of the call and the only header write; with header unset, the call
\* makes no header write, so its first write is a body write.
C4_HeaderBeforeBody ==
    InCall =>
        IF options.header
        THEN IF pc = "header"
             THEN Seg = <<>>
             ELSE /\ Cardinality(HeaderWrites(Seg)) = 1
                  /\ Seg[1].kind = "header"
        ELSE HeaderWrites(Seg) = {}

C4_Witness ==
    /\ pc = "return"
    /\ options.header
    /\ Len(Seg) = 3
    /\ Seg[1].kind = "header"
    /\ Seg[2].kind = "body"
    /\ Seg[3].kind = "body"

\* C5: finish starts no write after a failed one and returns the error of
\* the first failed write: a failed header write ends the call with no body
\* write; finish returns Ok only when every write it made succeeded.
C5_FirstFailureReturned ==
    /\ InCall => \A i \in 1..(Len(Seg) - 1) : Seg[i].ok
    /\ pc = "return" =>
          IF FailedWrites(Seg) = {}
          THEN result = Ok
          ELSE /\ result = Err(Len(writes))
               /\ ~Seg[Len(Seg)].ok
               /\ (Seg[1].kind = "header" /\ ~Seg[1].ok) => Len(Seg) = 1

C5_Witness ==
    /\ pc = "return"
    /\ Len(Seg) = 1
    /\ Seg[1].kind = "header"
    /\ ~Seg[1].ok
    /\ result = Err(Len(writes))
    /\ rows > 0

\* C6: in every reachable state the delimiter byte and the quote byte of
\* the options differ.
C6_DelimiterDiffersFromQuote == options.delimiter # options.quote

\* C7: in every reachable state the batch_size option is at least 1.
C7_BatchSizePositive == options.batch_size >= 1

\* C8: once finish has been called on a writer, no configuration call takes
\* effect on it: the options never change again.
C8_NoConfigurationAfterFinish == [][nFinish >= 1 => options' = options]_vars

\* C9: a writer built with CsvWriter::new has the documented defaults,
\* time_format = None among them.
C9_DocumentedDefaults ==
    nCalls = 0 =>
        options = [ header          |-> TRUE,
                    date_format     |-> None,
                    time_format     |-> None,
                    datetime_format |-> None,
                    float_precision |-> None,
                    delimiter       |-> 44,
                    quote           |-> 34,
                    null            |-> "",
                    batch_size      |-> 1024 ]

\* C10: a single-option configuration call changes no option field but the
\* one it names, and no configuration call writes to the output stream.
C10_Frame ==
    [][ nCalls' = nCalls + 1 =>
            /\ writes' = writes
            /\ last'.op \in SingleOps =>
                   \A f \in AllFields \ {FieldOf(last'.op)} :
                       options'[f] = options[f] ]_vars

C10_Witness ==
    /\ last.op = "with_delimiter"
    /\ options.delimiter = DoubleQuote
    /\ options.quote = Comma
    /\ Len(writes) > 0

====
